---- MODULE Spec2Model ----
(***************************************************************************)
(* Model of crawler_ai/app.py: run_scraper (the orchestrating drain loop), *)
(* FileHandler (the directory watcher's event handler), main's handling of *)
(* the result, and the external worker process with its two pipes and the  *)
(* files it writes into the watched directory.                             *)
(*                                                                         *)
(* Text is modelled as a sequence of tokens: a path or a file name is the  *)
(* sequence of its characters, an output line is the sequence of its       *)
(* characters, a bundle is the sequence of the pieces the f-string of      *)
(* line 77 concatenates.  A Python dict is the sequence of its items in    *)
(* insertion order.                                                        *)
(***************************************************************************)
EXTENDS Integers, Sequences, FiniteSets, TLC

\* ------------------------------------------------------------------ bounds
\* Most standard-output lines the worker writes in one run.
MaxOut == 2
\* Lines a pipe holds before the writer blocks.
PipeCap == 1
\* Most file writes the worker performs in one run.
MaxFileOps == 2
\* Longest event sequence of the event-sequence specification.
MaxEvLen == 3

\* Most pieces a URL typed into the form is made of.
MaxUrlParts == 3

\* Most standard-error lines the worker writes: one more than the pipe holds.
MaxErr == PipeCap + 1

\* ---------------------------------------------------------- text and paths
\* The characters used in paths, in ascending code point order.
Alphabet == <<".", "/", "a", "b", "c", "g", "l", "o", "t", "x">>

Ord(ch) == CHOOSE i \in 1..Len(Alphabet) : Alphabet[i] = ch

\* Python's str < str: lexicographic by code point, a proper prefix is smaller.
RECURSIVE StrLess(_, _)
StrLess(s, t) ==
    IF t = <<>> THEN FALSE
    ELSE IF s = <<>> THEN TRUE
    ELSE IF Head(s) = Head(t) THEN StrLess(Tail(s), Tail(t))
    ELSE Ord(Head(s)) < Ord(Head(t))

\* str.endswith(suffix)
EndsWith(s, suffix) ==
    /\ Len(s) >= Len(suffix)
    /\ SubSeq(s, Len(s) - Len(suffix) + 1, Len(s)) = suffix

\* os.path.basename(path): what follows the last "/".
RECURSIVE Basename(_)
Basename(p) ==
    IF \A i \in 1..Len(p) : p[i] /= "/" THEN p
    ELSE Basename(Tail(p))

\* os.path.join(a, b)
PathJoin(a, b) == a \o <<"/">> \o b

TxtSuffix == <<".", "t", "x", "t">>

\* The watched directory (os.path.join('out', domain), line 46).
OutputDir == <<"o">>

\* str.startswith(prefix)
StartsWith(s, prefix) ==
    /\ Len(s) >= Len(prefix)
    /\ SubSeq(s, 1, Len(prefix)) = prefix

\* str.replace(old, ''): every occurrence of old, found left to right and
\* without overlap, is removed.
RECURSIVE Remove(_, _)
Remove(s, old) ==
    IF Len(s) < Len(old) THEN s
    ELSE IF StartsWith(s, old) THEN Remove(SubSeq(s, Len(old) + 1, Len(s)), old)
    ELSE <<Head(s)>> \o Remove(Tail(s), old)

\* str.split(sep)[0] for a one-character sep: what precedes the first sep.
RECURSIVE SplitFirst(_, _)
SplitFirst(s, sep) ==
    IF s = <<>> \/ Head(s) = sep THEN <<>>
    ELSE <<Head(s)>> \o SplitFirst(Tail(s), sep)

HttpsScheme == <<"h", "t", "t", "p", "s", ":", "/", "/">>
HttpScheme == <<"h", "t", "t", "p", ":", "/", "/">>

\* main, line 160: url.startswith(('http://', 'https://')) if url else False
UrlValid(u) ==
    /\ u /= <<>>
    /\ (StartsWith(u, HttpScheme) \/ StartsWith(u, HttpsScheme))

\* run_scraper, line 45:
\* url.replace('https://', '').replace('http://', '').split('/')[0]
DeriveDomain(u) == SplitFirst(Remove(Remove(u, HttpsScheme), HttpScheme), "/")

\* The pieces URLs are put together from, and the URLs of up to n pieces.
UrlParts == { HttpsScheme, HttpScheme, <<"a">>, <<"/">>, <<":">> }

RECURSIVE UrlsUpTo(_)
UrlsUpTo(n) ==
    IF n = 0 THEN { <<>> }
    ELSE LET shorter == UrlsUpTo(n - 1)
         IN shorter \cup { u \o part : u \in shorter, part \in UrlParts }

\* The URL of the runs of the main specification.
MainUrl == HttpsScheme \o <<"a">>

\* File names the worker may write under the watched directory.
FileNames == { <<"a", ".", "t", "x", "t">>,
               <<"b", ".", "t", "x", "t">> }

\* A file name without the text extension.
LogName == <<"c", ".", "l", "o", "g">>

Contents == {"X", "Y"}

\* The k-th line the worker writes: numbered, with a leading blank, or (every
\* second line) blank.
WorkerLine(k) ==
    IF k % 2 = 0 THEN <<"\n">> ELSE <<" ", "l", ToString(k), "\n">>

Whitespace == {" ", "\n", "\t", "\r"}

\* str.strip(): drop leading and trailing whitespace.
RECURSIVE LStrip(_)
LStrip(s) ==
    IF s /= <<>> /\ Head(s) \in Whitespace THEN LStrip(Tail(s)) ELSE s

RECURSIVE RStrip(_)
RStrip(s) ==
    IF s /= <<>> /\ s[Len(s)] \in Whitespace
    THEN RStrip(SubSeq(s, 1, Len(s) - 1)) ELSE s

Strip(s) == RStrip(LStrip(s))

\* ------------------------------------------------------------- Python dict
\* A dict is the sequence of its items <<key, value>> in insertion order.
DictKeys(d) == { d[i][1] : i \in 1..Len(d) }

DictGet(d, k) == (CHOOSE i \in 1..Len(d) : d[i][1] = k)

\* d[k] = v : an existing key keeps its position, a new key is appended.
DictSet(d, k, v) ==
    IF k \in DictKeys(d)
    THEN [i \in 1..Len(d) |-> IF d[i][1] = k THEN <<k, v>> ELSE d[i]]
    ELSE Append(d, <<k, v>>)

\* The dict as a mapping, insertion order forgotten (dict equality).
DictMap(d) == [k \in DictKeys(d) |-> d[DictGet(d, k)][2]]

\* ---------------------------------------------------------------- bundle
\* Tuple order of two dict items: by key (keys are unique within a dict).
ItemLess(x, y) == StrLess(x[1], y[1])

RECURSIVE InsertSorted(_, _)
InsertSorted(x, s) ==
    IF s = <<>> THEN <<x>>
    ELSE IF ItemLess(x, Head(s)) THEN <<x>> \o s
    ELSE <<Head(s)>> \o InsertSorted(x, Tail(s))

\* An order-ignoring variant of Sorted: the items as the dict iterates them.
SortedUnsorted(items) == items

\* sorted(event_handler.files_content.items()), line 76.
RECURSIVE Sorted(_)
Sorted(items) ==
    IF items = <<>> THEN <<>>
    ELSE InsertSorted(Head(items), Sorted(Tail(items)))

SectionHead == "## "
FenceOpen == "\n[fence]\n"
FenceClose == "\n[fence]\n\n"

\* The f-string of line 77: header, file name, fenced content, blank line.
Section(filename, content) ==
    <<SectionHead>> \o filename \o <<FenceOpen, content, FenceClose>>

RECURSIVE ConcatSections(_)
ConcatSections(items) ==
    IF items = <<>> THEN <<>>
    ELSE Section(Head(items)[1], Head(items)[2]) \o ConcatSections(Tail(items))

\* A variant of Items that misses the oldest item of a dict that has grown.
ItemsTorn(d) == IF Len(d) > 1 THEN Tail(d) ELSE d

\* files_content.items() as sorted() copies it into a list, line 76: the
\* interpreter runs the copy as one uninterrupted step, so the list holds the
\* dict's items as they are at that step.
Items(d) == d

\* A variant of Render that keeps the previous text (line 75 left out).
RenderAppending(previous, d) == previous \o ConcatSections(Sorted(Items(d)))

\* Lines 75-77: combined_content is reset, then one section per item is
\* appended in sorted order.  `previous` is combined_content before line 75.
Render(previous, d) == ConcatSections(Sorted(Items(d)))

\* download_button(content, filename, button_text), lines 15-19: the href
\* carries the encoded content.
DownloadButton(content) == <<"<a href=data:text/plain;base64,">> \o content \o <<"</a>">>

\* ----------------------------------------------------------------- state
VARIABLES
    pc,               \* where main / run_scraper stands
    failure,          \* which call of run_scraper raised: "none" if none did
    dirExists,        \* the output directory exists on disk
    observer,         \* the watchdog Observer: "none", "active", "stopped"
    proc,             \* the worker: "none", "running", "closed", "exited"
    exitCode,         \* the code the worker exited with
    outLeft,          \* standard-output lines the worker has yet to write
    linesWritten,     \* standard-output lines the worker has written
    errLeft,          \* standard-error lines the worker has yet to write
    fileLeft,         \* file writes the worker has yet to perform
    stdoutPipe,       \* lines written to standard output and not yet read
    stderrPipe,       \* lines written to standard error and not yet read
    disk,             \* content of each file of the output directory
    evq,              \* the observer's queue of filesystem events
    files_content,    \* FileHandler.files_content
    output,           \* run_scraper's local `output`
    combined_content, \* run_scraper's local `combined_content`
    file_placeholder, \* what file_placeholder displays
    download_link,    \* what files_container displays
    statusLog,        \* every text written to status_container, in order
    result,           \* main's local `result`
    indications,      \* every st.success / st.error call, in order
    fsHist,           \* every value files_content took after a store, in order
    shownVer,         \* Len(fsHist) when the displayed bundle was rendered
    iterLines,        \* texts written to status_container in this iteration
    iterRenders,      \* bundles displayed in this iteration
    seqA, seqB,       \* event-sequence specification: two sequences of events
    idx,              \* event-sequence specification: events delivered of each
    fsA, fsB,         \* event-sequence specification: the two handlers' dicts
    url,              \* the text of the URL input of the form
    domain            \* run_scraper's local `domain`

iterVars == <<iterLines, iterRenders>>
orchVars == <<pc, failure, output, combined_content, file_placeholder,
              download_link, statusLog, result, indications, shownVer, iterVars>>
workerVars == <<proc, exitCode, outLeft, linesWritten, errLeft, fileLeft,
                stdoutPipe, stderrPipe, disk>>
watchVars == <<evq, files_content, fsHist>>
seqVars == <<seqA, seqB, idx, fsA, fsB>>
urlVars == <<url, domain>>
orchVarsButPc == <<failure, output, combined_content, file_placeholder,
                   download_link, statusLog, result, indications, shownVer,
                   iterVars>>
vars == <<orchVars, workerVars, watchVars, seqVars, urlVars, dirExists, observer>>

NoFile == "<absent>"
\* Python's None where an exit code is expected (poll() before the exit): an
\* integer that is no exit code.
NoResult == -999
Eof == <<>>

ExitCodes == {0, 2}

\* ---------------------------------------------------- FileHandler (watcher)
ModifiedEvent(path, isDir) ==
    [kind |-> "modified", src_path |-> path, is_directory |-> isDir]

CreatedEvent(path, isDir) ==
    [kind |-> "created", src_path |-> path, is_directory |-> isDir]

\* The condition of line 27.
Qualifies(event) ==
    ~event.is_directory /\ EndsWith(event.src_path, TxtSuffix)

\* A variant of OnModified that keeps the first content stored for a name.
OnModifiedKeepFirst(fc, event, readOk, content) ==
    IF Qualifies(event) /\ readOk /\ Basename(event.src_path) \notin DictKeys(fc)
    THEN DictSet(fc, Basename(event.src_path), content)
    ELSE fc

\* A variant of OnModified that forgets everything when a read fails.
OnModifiedClearOnFail(fc, event, readOk, content) ==
    IF Qualifies(event) /\ readOk
    THEN DictSet(fc, Basename(event.src_path), content)
    ELSE IF Qualifies(event) THEN <<>> ELSE fc

\* FileHandler.on_modified, lines 26-33: the new files_content.  readOk is
\* whether open/read succeeded, content what read() returned.
OnModified(fc, event, readOk, content) ==
    IF Qualifies(event) /\ readOk
    THEN DictSet(fc, Basename(event.src_path), content)
    ELSE fc

\* FileSystemEventHandler.dispatch: FileHandler overrides on_modified only,
\* every other kind of event reaches the inherited handler, which does nothing.
Dispatch(fc, event, readOk, content) ==
    IF event.kind = "modified" THEN OnModified(fc, event, readOk, content)
    ELSE fc

\* Whether handling the event stores into files_content.
Stores(event, readOk) ==
    event.kind = "modified" /\ Qualifies(event) /\ readOk

\* ------------------------------------------------------------------ Init
Init ==
    /\ pc = "idle"
    /\ failure = "none"
    /\ dirExists \in BOOLEAN
    /\ observer = "none"
    /\ proc = "none"
    /\ exitCode = 0
    /\ outLeft = 0
    /\ linesWritten = 0
    /\ errLeft = 0
    /\ fileLeft = 0
    /\ stdoutPipe = <<>>
    /\ stderrPipe = <<>>
    /\ disk = [n \in FileNames |-> NoFile]
    /\ evq = <<>>
    /\ files_content = <<>>
    /\ output = Eof
    /\ combined_content = <<>>
    /\ file_placeholder = <<>>
    /\ download_link = <<>>
    /\ statusLog = <<>>
    /\ result = NoResult
    /\ indications = <<>>
    /\ fsHist = <<>>
    /\ shownVer = 0
    /\ iterLines = 0
    /\ iterRenders = 0
    /\ seqA = <<>>
    /\ seqB = <<>>
    /\ idx = <<0, 0>>
    /\ fsA = <<>>
    /\ fsB = <<>>
    /\ url = MainUrl
    /\ domain = <<>>

\* ------------------------------------------------ main and run_scraper
\* The value run_scraper returns from its except clause, line 98.
ExceptReturn == 1

\* main, lines 160-181: the start button, enabled for a valid URL, was
\* pressed, and run_scraper is called.
StartButton ==
    /\ pc = "idle"
    /\ UNCHANGED iterVars
    /\ UrlValid(url)
    /\ pc' = "makedirs"
    /\ UNCHANGED <<failure, output, combined_content, file_placeholder,
                   download_link, statusLog, result, indications, shownVer>>
    /\ UNCHANGED <<workerVars, watchVars, seqVars, urlVars, dirExists, observer>>

\* os.makedirs(output_dir, exist_ok=True), line 47, told whether the directory
\* exists: an existing directory is accepted, creating one may fail.
MakedirsAlwaysMayRaise(exists) == TRUE

MakedirsMayRaise(exists) == ~exists

\* Lines 45-47: the domain is derived from the URL, and os.makedirs creates
\* the directory, accepts an existing one, or raises.
MakeDirs ==
    /\ pc = "makedirs"
    /\ UNCHANGED iterVars
    /\ domain' = DeriveDomain(url)
    /\ \E raises \in { r \in BOOLEAN : r => MakedirsMayRaise(dirExists) } :
         IF raises
         THEN /\ failure' = "makedirs"
              /\ pc' = "except"
              /\ UNCHANGED dirExists
         ELSE /\ dirExists' = TRUE
              /\ pc' = "observer"
              /\ UNCHANGED failure
    /\ UNCHANGED <<output, combined_content, file_placeholder, download_link,
                   statusLog, result, indications, shownVer>>
    /\ UNCHANGED <<workerVars, watchVars, seqVars, url, observer>>

\* A variant of ObserverTarget that goes on to Popen whatever the observer did.
ObserverTargetAlwaysPopen(raises) == "popen"

\* Where control goes after observer.schedule / observer.start, lines 52-53:
\* on to the placeholders and Popen, or to the except clause when one raises.
ObserverTarget(raises) == IF raises THEN "except" ELSE "popen"

\* Lines 50-53: the handler and the observer are created, scheduled and
\* started; schedule/start may raise, and then no watch is active.
StartObserver ==
    /\ pc = "observer"
    /\ UNCHANGED iterVars
    /\ \E raises \in BOOLEAN :
         /\ pc' = ObserverTarget(raises)
         /\ IF raises
            THEN /\ failure' = "observer"
                 /\ UNCHANGED observer
            ELSE /\ observer' = "active"
                 /\ UNCHANGED failure
    /\ UNCHANGED <<output, combined_content, file_placeholder, download_link,
                   statusLog, result, indications, shownVer>>
    /\ UNCHANGED <<workerVars, watchVars, seqVars, urlVars, dirExists>>

\* A variant of PopenTarget that goes on to the loop whatever Popen did.
PopenTargetAlwaysLoop(raises) == "readline"

\* Where control goes after subprocess.Popen, lines 59-64: to the loop, or to
\* the except clause when Popen raises.
PopenTarget(raises) == IF raises THEN "except" ELSE "readline"

\* Lines 56-64: the placeholder is created, combined_content is emptied, the
\* worker is spawned with both pipes.  The worker's behaviour (how much it will
\* write) is the input.
Popen ==
    /\ pc = "popen"
    /\ UNCHANGED iterVars
    /\ file_placeholder' = <<>>
    /\ combined_content' = <<>>
    /\ \E raises \in BOOLEAN :
         /\ pc' = PopenTarget(raises)
         /\ IF raises
            THEN /\ failure' = "popen"
                 /\ UNCHANGED workerVars
            ELSE /\ UNCHANGED failure
                 /\ proc' = "running"
                 /\ UNCHANGED <<exitCode, linesWritten>>
                 /\ outLeft' \in 0..MaxOut
                 /\ errLeft' \in 0..MaxErr
                 /\ fileLeft' \in 0..MaxFileOps
                 /\ UNCHANGED <<stdoutPipe, stderrPipe, disk>>
    /\ UNCHANGED <<output, download_link, statusLog, result, indications,
                   shownVer>>
    /\ UNCHANGED <<watchVars, seqVars, urlVars, dirExists, observer>>

\* Line 67: process.stdout.readline() returns the next line, or '' at end of
\* file; it blocks while the pipe is empty and the worker holds it open.
Readline ==
    /\ pc = "readline"
    /\ \/ /\ stdoutPipe /= <<>>
          /\ output' = Head(stdoutPipe)
          /\ stdoutPipe' = Tail(stdoutPipe)
       \/ /\ stdoutPipe = <<>>
          /\ proc \in {"closed", "exited"}
          /\ output' = Eof
          /\ UNCHANGED stdoutPipe
    /\ pc' = "test"
    /\ iterLines' = 0
    /\ iterRenders' = 0
    /\ UNCHANGED <<failure, combined_content, file_placeholder, download_link,
                   statusLog, result, indications, shownVer>>
    /\ UNCHANGED <<proc, exitCode, outLeft, linesWritten, errLeft, fileLeft,
                   stderrPipe, disk>>
    /\ UNCHANGED <<watchVars, seqVars, urlVars, dirExists, observer>>

\* process.poll(): None (here NoResult) until the worker has exited.
Poll == IF proc = "exited" THEN exitCode ELSE NoResult

\* Variants of BreakTest: one that leaves at end of file without asking for
\* the exit code, one that leaves on the exit code whatever was read.
BreakTestIgnoringPoll(out, polled) == out = Eof

BreakTestIgnoringOutput(out, polled) == polled /= NoResult

\* Line 68: output == '' and process.poll() is not None
BreakTest(out, polled) == out = Eof /\ polled /= NoResult

\* A variant of StatusWrite that writes the text twice.
StatusWriteTwice(log, out) == Append(Append(log, Strip(out)), Strip(out))

\* Line 71: status_container.write(output.strip())
StatusWrite(log, out) == Append(log, Strip(out))

\* Lines 68-71: leave the loop at end of file once the exit code is there,
\* otherwise write the stripped line (if any) to status_container.
TestOutput ==
    /\ pc = "test"
    /\ IF BreakTest(output, Poll)
       THEN /\ pc' = "stop"
            /\ UNCHANGED statusLog
       ELSE /\ pc' = "check"
            /\ statusLog' = IF output /= Eof
                            THEN StatusWrite(statusLog, output)
                            ELSE statusLog
    /\ iterLines' = iterLines + Len(statusLog') - Len(statusLog)
    /\ UNCHANGED iterRenders
    /\ UNCHANGED <<failure, output, combined_content, file_placeholder,
                   download_link, result, indications, shownVer>>
    /\ UNCHANGED <<workerVars, watchVars, seqVars, urlVars, dirExists, observer>>

\* Line 74 (and line 90 when the dict is empty): is files_content non-empty?
CheckFiles ==
    /\ pc = "check"
    /\ UNCHANGED iterVars
    /\ pc' = IF files_content /= <<>> THEN "render" ELSE "readline"
    /\ UNCHANGED <<failure, output, combined_content, file_placeholder,
                   download_link, statusLog, result, indications, shownVer>>
    /\ UNCHANGED <<workerVars, watchVars, seqVars, urlVars, dirExists, observer>>

\* Lines 75-90: the bundle is rebuilt from files_content as it is when
\* sorted() copies its items, then displayed and offered for download.
RenderBundle ==
    /\ pc = "render"
    /\ combined_content' = Render(combined_content, files_content)
    /\ file_placeholder' = combined_content'
    /\ download_link' = DownloadButton(combined_content')
    /\ shownVer' = Len(fsHist)
    /\ iterRenders' = iterRenders + 1
    /\ pc' = "readline"
    /\ UNCHANGED iterLines
    /\ UNCHANGED <<failure, output, statusLog, result, indications>>
    /\ UNCHANGED <<workerVars, watchVars, seqVars, urlVars, dirExists, observer>>

\* Lines 92-93: observer.stop() and observer.join().
StopObserver ==
    /\ pc = "stop"
    /\ observer' = "stopped"
    /\ pc' = "return"
    /\ UNCHANGED <<orchVarsButPc, workerVars, watchVars, seqVars, urlVars, dirExists>>

\* Line 94: return process.poll().
Return ==
    /\ pc = "return"
    /\ UNCHANGED iterVars
    /\ result' = Poll
    /\ pc' = "main_result"
    /\ UNCHANGED <<failure, output, combined_content, file_placeholder,
                   download_link, statusLog, indications, shownVer>>
    /\ UNCHANGED <<workerVars, watchVars, seqVars, urlVars, dirExists, observer>>

Indication(kind, by) == [kind |-> kind, by |-> by]

\* Lines 96-98: the except clause reports the error with st.error and
\* returns 1; it stops no observer and ends no process.
Except ==
    /\ pc = "except"
    /\ UNCHANGED iterVars
    /\ indications' = Append(indications, Indication("error", "run_scraper"))
    /\ result' = ExceptReturn
    /\ pc' = "main_result"
    /\ UNCHANGED <<failure, output, combined_content, file_placeholder,
                   download_link, statusLog, shownVer>>
    /\ UNCHANGED <<workerVars, watchVars, seqVars, urlVars, dirExists, observer>>

\* A variant of ResultKind that reports success whatever the result.
ResultKindAlwaysSuccess(r) == "success"

\* main, lines 183-186: st.success when result == 0, st.error otherwise.
ResultKind(r) == IF r = 0 THEN "success" ELSE "error"

MainResult ==
    /\ pc = "main_result"
    /\ UNCHANGED iterVars
    /\ indications' = Append(indications, Indication(ResultKind(result), "main"))
    /\ pc' = "done"
    /\ UNCHANGED <<failure, output, combined_content, file_placeholder,
                   download_link, statusLog, result, shownVer>>
    /\ UNCHANGED <<workerVars, watchVars, seqVars, urlVars, dirExists, observer>>

Orchestrator ==
    \/ StartButton
    \/ MakeDirs
    \/ StartObserver
    \/ Popen
    \/ Readline
    \/ TestOutput
    \/ CheckFiles
    \/ RenderBundle
    \/ StopObserver
    \/ Return
    \/ Except
    \/ MainResult

\* ------------------------------------------------------ the worker process
\* The worker spawned at lines 59-64 (node crawler.mjs url) is external: it
\* writes lines to its two pipes and files to the output directory, in any
\* order, then closes its standard output and exits.

ErrLine == <<"e", "r", "r", "\n">>

\* The worker writes one line to standard output; it blocks on a full pipe.
WorkerWriteStdout ==
    /\ proc = "running"
    /\ outLeft > 0
    /\ Len(stdoutPipe) < PipeCap
    /\ stdoutPipe' = Append(stdoutPipe, WorkerLine(linesWritten + 1))
    /\ linesWritten' = linesWritten + 1
    /\ outLeft' = outLeft - 1
    /\ UNCHANGED <<proc, exitCode, errLeft, fileLeft, stderrPipe, disk>>
    /\ UNCHANGED <<orchVars, watchVars, seqVars, urlVars, dirExists, observer>>

\* The worker writes one line to standard error; it blocks on a full pipe.
WorkerWriteStderr ==
    /\ proc = "running"
    /\ errLeft > 0
    /\ Len(stderrPipe) < PipeCap
    /\ stderrPipe' = Append(stderrPipe, ErrLine)
    /\ errLeft' = errLeft - 1
    /\ UNCHANGED <<proc, exitCode, outLeft, linesWritten, fileLeft, stdoutPipe,
                   disk>>
    /\ UNCHANGED <<orchVars, watchVars, seqVars, urlVars, dirExists, observer>>

\* The events the operating system reports for a write of `name`: for a new
\* file its creation and the change of the directory, then the modification.
WriteEvents(name, isNew) ==
    (IF isNew
     THEN <<CreatedEvent(PathJoin(OutputDir, name), FALSE),
            ModifiedEvent(OutputDir, TRUE)>>
     ELSE <<>>)
    \o <<ModifiedEvent(PathJoin(OutputDir, name), FALSE)>>

\* The worker writes a file of the output directory; an active observer
\* queues the events.
WorkerWriteFile ==
    /\ proc = "running"
    /\ fileLeft > 0
    /\ \E name \in FileNames, content \in Contents :
         /\ disk' = [disk EXCEPT ![name] = content]
         /\ evq' = IF observer = "active"
                   THEN evq \o WriteEvents(name, disk[name] = NoFile)
                   ELSE evq
    /\ fileLeft' = fileLeft - 1
    /\ UNCHANGED <<proc, exitCode, outLeft, linesWritten, errLeft, stdoutPipe,
                   stderrPipe>>
    /\ UNCHANGED <<files_content, fsHist>>
    /\ UNCHANGED <<orchVars, seqVars, urlVars, dirExists, observer>>

\* The worker has written everything: its standard output reaches end of file.
WorkerCloseStdout ==
    /\ proc = "running"
    /\ outLeft = 0 /\ errLeft = 0 /\ fileLeft = 0
    /\ proc' = "closed"
    /\ UNCHANGED <<exitCode, outLeft, linesWritten, errLeft, fileLeft,
                   stdoutPipe, stderrPipe, disk>>
    /\ UNCHANGED <<orchVars, watchVars, seqVars, urlVars, dirExists, observer>>

\* The worker exits: its exit code becomes available to poll().
WorkerExit ==
    /\ proc = "closed"
    /\ proc' = "exited"
    /\ exitCode' \in ExitCodes
    /\ UNCHANGED <<outLeft, linesWritten, errLeft, fileLeft, stdoutPipe,
                   stderrPipe, disk>>
    /\ UNCHANGED <<orchVars, watchVars, seqVars, urlVars, dirExists, observer>>

Worker ==
    \/ WorkerWriteStdout
    \/ WorkerWriteStderr
    \/ WorkerWriteFile
    \/ WorkerCloseStdout
    \/ WorkerExit

\* ---------------------------------------------------- the observer's thread
\* The observer thread takes the next event and dispatches it to the
\* handler; on_modified reads the file as it is now, and the read may fail.
WatcherDispatch ==
    /\ observer = "active"
    /\ evq /= <<>>
    /\ LET event == Head(evq)
           name == Basename(event.src_path)
       IN \E readOk \in BOOLEAN :
            /\ readOk => (name \in FileNames /\ disk[name] /= NoFile)
            /\ files_content' =
                 Dispatch(files_content, event, readOk,
                          IF readOk THEN disk[name] ELSE NoFile)
            /\ fsHist' = IF Stores(event, readOk)
                         THEN Append(fsHist, DictMap(files_content'))
                         ELSE fsHist
    /\ evq' = Tail(evq)
    /\ UNCHANGED <<orchVars, workerVars, seqVars, urlVars, dirExists, observer>>

\* --------------------------------------------------------- specifications
Next ==
    \/ Orchestrator
    \/ Worker
    \/ WatcherDispatch

Spec == Init /\ [][Next]_vars

\* The orchestrator's thread and the observer's thread are scheduled; the
\* worker is an external process and may stay quiet for any length of time.
FairSpec ==
    /\ Spec
    /\ WF_vars(Orchestrator)
    /\ WF_vars(WatcherDispatch)

\* The worker, too, takes a step whenever one stays possible: it runs until
\* it has done all it set out to do, unless a full pipe blocks its write.
FairWorkerSpec ==
    /\ FairSpec
    /\ WF_vars(Worker)

\* ------------------------------------------- event-sequence specification
\* Two FileHandler objects receive two sequences of events that differ by one
\* reordering of neighbouring events or by one duplicated event.  An element
\* of a sequence is an event together with what reading the file returns when
\* the event is handled.
Delivery(event, readOk, content) ==
    [event |-> event, readOk |-> readOk, content |-> content]

Deliveries ==
    { Delivery(ModifiedEvent(PathJoin(OutputDir, n), FALSE), TRUE, c) :
        n \in FileNames, c \in Contents }
    \cup { Delivery(ModifiedEvent(PathJoin(OutputDir, LogName), FALSE), TRUE, "X"),
           Delivery(ModifiedEvent(OutputDir, TRUE), FALSE, NoFile),
           Delivery(CreatedEvent(PathJoin(OutputDir, <<"a", ".", "t", "x", "t">>),
                                 FALSE), TRUE, "X"),
           Delivery(ModifiedEvent(PathJoin(OutputDir, <<"a", ".", "t", "x", "t">>),
                                  FALSE), FALSE, NoFile) }

RECURSIVE SeqsUpTo(_)
SeqsUpTo(n) ==
    IF n = 0 THEN { <<>> }
    ELSE LET shorter == SeqsUpTo(n - 1)
         IN shorter \cup { Append(s, d) : s \in shorter, d \in Deliveries }

\* s with elements i and i+1 exchanged.
SwapAt(s, i) ==
    [k \in 1..Len(s) |-> IF k = i THEN s[i + 1] ELSE IF k = i + 1 THEN s[i] ELSE s[k]]

\* s with a copy of element i inserted after position j (0: in front).
DupAt(s, i, j) == SubSeq(s, 1, j) \o <<s[i]>> \o SubSeq(s, j + 1, Len(s))

Variants(s) ==
    {s}
    \cup { SwapAt(s, i) : i \in { k \in 1..(Len(s) - 1) :
                                   s[k].event.src_path /= s[k + 1].event.src_path } }
    \cup { DupAt(s, i, j) : i \in 1..Len(s), j \in 0..Len(s) }

SeqInit ==
    /\ pc = "events"
    /\ failure = "none"
    /\ dirExists = TRUE
    /\ observer = "none"
    /\ proc = "none"
    /\ exitCode = 0
    /\ outLeft = 0
    /\ linesWritten = 0
    /\ errLeft = 0
    /\ fileLeft = 0
    /\ stdoutPipe = <<>>
    /\ stderrPipe = <<>>
    /\ disk = [n \in FileNames |-> NoFile]
    /\ evq = <<>>
    /\ files_content = <<>>
    /\ output = Eof
    /\ combined_content = <<>>
    /\ file_placeholder = <<>>
    /\ download_link = <<>>
    /\ statusLog = <<>>
    /\ result = NoResult
    /\ indications = <<>>
    /\ fsHist = <<>>
    /\ shownVer = 0
    /\ iterLines = 0
    /\ iterRenders = 0
    /\ seqA \in SeqsUpTo(MaxEvLen)
    /\ seqB \in Variants(seqA)
    /\ idx = <<0, 0>>
    /\ fsA = <<>>
    /\ fsB = <<>>
    /\ url = MainUrl
    /\ domain = <<>>

mainVars == <<orchVars, workerVars, watchVars, urlVars, dirExists, observer>>

\* The first handler is given its next event.
DeliverA ==
    /\ pc = "events"
    /\ idx[1] < Len(seqA)
    /\ LET d == seqA[idx[1] + 1]
       IN fsA' = Dispatch(fsA, d.event, d.readOk, d.content)
    /\ idx' = <<idx[1] + 1, idx[2]>>
    /\ UNCHANGED <<seqA, seqB, fsB, mainVars>>

\* The second handler is given its next event, once the first has had all.
DeliverB ==
    /\ pc = "events"
    /\ idx[1] = Len(seqA)
    /\ idx[2] < Len(seqB)
    /\ LET d == seqB[idx[2] + 1]
       IN fsB' = Dispatch(fsB, d.event, d.readOk, d.content)
    /\ idx' = <<idx[1], idx[2] + 1>>
    /\ UNCHANGED <<seqA, seqB, fsA, mainVars>>

SeqNext ==
    \/ DeliverA
    \/ DeliverB

SeqSpec == SeqInit /\ [][SeqNext]_vars

\* ---------------------------------------------------- URL specification
\* The form holds any URL of up to MaxUrlParts pieces; the run is followed
\* from the start button to the creation of the output directory.
UrlInit ==
    /\ pc = "idle"
    /\ failure = "none"
    /\ dirExists \in BOOLEAN
    /\ observer = "none"
    /\ proc = "none"
    /\ exitCode = 0
    /\ outLeft = 0
    /\ linesWritten = 0
    /\ errLeft = 0
    /\ fileLeft = 0
    /\ stdoutPipe = <<>>
    /\ stderrPipe = <<>>
    /\ disk = [n \in FileNames |-> NoFile]
    /\ evq = <<>>
    /\ files_content = <<>>
    /\ output = Eof
    /\ combined_content = <<>>
    /\ file_placeholder = <<>>
    /\ download_link = <<>>
    /\ statusLog = <<>>
    /\ result = NoResult
    /\ indications = <<>>
    /\ fsHist = <<>>
    /\ shownVer = 0
    /\ iterLines = 0
    /\ iterRenders = 0
    /\ seqA = <<>>
    /\ seqB = <<>>
    /\ idx = <<0, 0>>
    /\ fsA = <<>>
    /\ fsB = <<>>
    /\ url \in UrlsUpTo(MaxUrlParts)
    /\ domain = <<>>

UrlNext ==
    \/ StartButton
    \/ MakeDirs

UrlSpec == UrlInit /\ [][UrlNext]_vars

\* ------------------------------------------------ reading a bundle back
\* The sections of a bundle, each as <<file name, content>>, in the order
\* they appear; a text that is no sequence of sections gives Malformed.
Malformed == << << <<"?">>, "?" >> >>

FenceAt(b) ==
    IF \E k \in 2..Len(b) : b[k] = FenceOpen
    THEN CHOOSE k \in 2..Len(b) :
           b[k] = FenceOpen /\ \A j \in 2..(k - 1) : b[j] /= FenceOpen
    ELSE 0

RECURSIVE ParseBundle(_)
ParseBundle(b) ==
    IF b = <<>> THEN <<>>
    ELSE LET k == FenceAt(b)
         IN IF b[1] /= SectionHead \/ k = 0 \/ Len(b) < k + 2
            THEN Malformed
            ELSE IF b[k + 2] /= FenceClose
            THEN Malformed
            ELSE LET rest == ParseBundle(SubSeq(b, k + 3, Len(b)))
                 IN IF rest = Malformed THEN Malformed
                    ELSE << <<SubSeq(b, 2, k - 1), b[k + 1]>> >> \o rest

SeqRange(s) == { s[i] : i \in 1..Len(s) }

\* The bundle shows exactly the mapping m: one section per name of m, each
\* with the content m gives it.
Shows(bundle, m) ==
    LET secs == ParseBundle(bundle)
    IN /\ Len(secs) = Cardinality(DOMAIN m)
       /\ SeqRange(secs) = { <<n, m[n]>> : n \in DOMAIN m }

LoopPcs == {"readline", "test", "check", "render"}

\* ---------------------------------------------------------------- claims
LastIndication == indications[Len(indications)]

\* C1: when the run is over, exactly one success or failure indication has
\* been given: success if the worker exited with 0, failure carrying the exit
\* code otherwise, and exactly one failure when a call of run_scraper raised.
C1_ExactlyOneIndication ==
    pc = "done" =>
      /\ Len(indications) = 1
      /\ failure = "none" =>
           /\ (exitCode = 0) <=> (LastIndication.kind = "success")
           /\ result = exitCode
      /\ failure /= "none" => LastIndication.kind = "error"

\* C2: when the run is over, on whichever path, the observer that was started
\* has been stopped and no worker is left unreaped.
C2_WatcherReleased ==
    pc = "done" =>
      /\ observer /= "active"
      /\ proc \in {"none", "exited"}

\* C3: content the watcher recorded while the worker is running is shown in
\* a bundle although the worker writes no further line and does not exit.
C3_RendersWhileQuiet ==
    \A v \in 1..MaxFileOps :
      (proc = "running" /\ Len(fsHist) = v) ~> (shownVer >= v \/ proc /= "running")

\* C4: when the worker cannot be spawned the run goes straight to its end:
\* the loop is never entered, no line and no bundle is emitted, and the
\* caller is given a failure.
C4_SpawnFailureSkipsLoop ==
    failure = "popen" =>
      /\ pc \in {"except", "main_result", "done"}
      /\ proc = "none"
      /\ statusLog = <<>>
      /\ file_placeholder = <<>>
      /\ download_link = <<>>
      /\ pc \in {"main_result", "done"} => result /= 0
      /\ pc = "done" => LastIndication.kind = "error"

C4_Witness ==
    /\ failure = "popen"
    /\ pc = "done"
    /\ observer = "active"

\* C5: every line the worker wrote to standard error has been consumed by
\* the orchestrator by the time the run is over.
C5_StderrConsumed ==
    (pc = "done" /\ failure = "none") => stderrPipe = <<>>

\* The most recent content per file name that a sequence of deliveries
\* leaves: for each name some delivery stores, what the last of them read.
StoringAt(s, n) ==
    { i \in 1..Len(s) : /\ Stores(s[i].event, s[i].readOk)
                        /\ Basename(s[i].event.src_path) = n }

Max(S) == CHOOSE x \in S : \A y \in S : y <= x

LastPer(s) ==
    [n \in { m \in FileNames \cup {LogName} : StoringAt(s, m) /= {} }
       |-> s[Max(StoringAt(s, n))].content]

AllDelivered == idx = <<Len(seqA), Len(seqB)>>

Handle(fc, d) == Dispatch(fc, d.event, d.readOk, d.content)

\* C6: two event sequences that differ by a reordering of events on
\* different files or by a duplicated event, and leave the same most recent
\* content per file name, leave the same FileSet and the same bundle; and
\* handling an event a second time changes nothing.
C6_OrderInsensitive ==
    /\ (AllDelivered /\ LastPer(seqA) = LastPer(seqB)) =>
         /\ DictMap(fsA) = DictMap(fsB)
         /\ DictMap(fsA) = LastPer(seqA)
         /\ Render(<<>>, fsA) = Render(<<>>, fsB)
    /\ \A d \in Deliveries : Handle(Handle(fsA, d), d) = Handle(fsA, d)

C6_Witness ==
    /\ AllDelivered
    /\ seqA /= seqB
    /\ LastPer(seqA) = LastPer(seqB)
    /\ Len(fsA) = 2
    /\ fsA /= fsB

\* C7: every bundle shown is the render of the FileSet as it was after some
\* store, and from one render to the next that store is never an earlier one.
C7_RendersMonotone ==
    /\ [](file_placeholder /= <<>> =>
            /\ shownVer \in 1..Len(fsHist)
            /\ Shows(file_placeholder, fsHist[shownVer]))
    /\ [][shownVer' >= shownVer]_vars

C7_Witness ==
    /\ pc = "render"
    /\ shownVer = 1
    /\ file_placeholder /= <<>>
    /\ Len(fsHist) = 2
    /\ fsHist[1] /= fsHist[2]

\* C8: whatever the interleaving of the observer's thread with the loop, the
\* bundle shown is the render of one value the FileSet had, and reading the
\* FileSet never takes the run to the except clause.
C8_RenderOfOneInstant ==
    /\ file_placeholder /= <<>> =>
         \E i \in 1..Len(fsHist) : Shows(file_placeholder, fsHist[i])
    /\ download_link /= <<>> =>
         \E i \in 1..Len(fsHist) :
           Shows(SubSeq(download_link, 2, Len(download_link) - 1), fsHist[i])
    /\ proc /= "none" => (pc /= "except" /\ failure = "none")

C8_Witness ==
    /\ file_placeholder /= <<>>
    /\ Len(fsHist) = 2
    /\ Cardinality(DOMAIN fsHist[2]) = 2
    /\ Shows(file_placeholder, fsHist[1])
    /\ evq = <<>>

\* C9: a worker that exits without any file having been recorded still brings
\* the run to its end, no bundle is ever shown, and the indication given is
\* success exactly if the exit code is 0.
C9_NoFilesStillCompletes ==
    /\ []((pc = "done" /\ failure = "none" /\ files_content = <<>>) =>
            /\ file_placeholder = <<>>
            /\ download_link = <<>>
            /\ result = exitCode
            /\ Len(indications) = 1
            /\ (LastIndication.kind = "success") <=> (exitCode = 0))
    /\ [](files_content = <<>> => (file_placeholder = <<>> /\ download_link = <<>>))
    /\ (proc = "exited" /\ files_content = <<>>)
         ~> (pc = "done" \/ files_content /= <<>>)

C9_Witness ==
    /\ pc = "done"
    /\ failure = "none"
    /\ files_content = <<>>
    /\ exitCode /= 0
    /\ statusLog /= <<>>

\* C10: the bundle rendered from a FileSet has exactly one section per file
\* name, in ascending order of file name, each headed by its name and holding
\* its exact content, whatever combined_content held before.
C10_RenderSortedExact ==
    LET bundle == Render(<<>>, fsA)
        secs == ParseBundle(bundle)
    IN /\ Shows(bundle, DictMap(fsA))
       /\ \A i, j \in 1..Len(secs) : i < j => StrLess(secs[i][1], secs[j][1])
       /\ Render(Render(<<>>, fsB), fsA) = bundle

C10_Witness ==
    /\ Len(fsA) = 2
    /\ StrLess(fsA[2][1], fsA[1][1])
    /\ fsA[1][2] /= fsA[2][2]

\* ------------------------------------------------------------- claim C11
\* sub in s: sub occurs in s as a run of neighbouring characters.
Contains(s, sub) ==
    \E i \in 1..(Len(s) - Len(sub) + 1) : SubSeq(s, i, i + Len(sub) - 1) = sub

PathSeparator == <<"/">>
SchemeSeparator == <<":", "/", "/">>

\* C11: once run_scraper has derived the domain of an accepted URL, the
\* domain is non-empty and contains neither a path separator nor a scheme
\* separator.
C11_DomainSafe ==
    (pc \notin {"idle", "makedirs"} /\ UrlValid(url)) =>
        /\ domain /= <<>>
        /\ ~Contains(domain, PathSeparator)
        /\ ~Contains(domain, SchemeSeparator)

\* ------------------------------------------------------------- claim C12
\* C12: os.makedirs on a directory that exists goes on to the start of the
\* watcher without a failure; when os.makedirs fails, the directory did not
\* exist, no observer and no process is ever started, and the run ends with
\* the failure result and an error indication.
C12_MakedirsOutcome ==
    [][ /\ (pc = "makedirs" /\ pc' /= pc /\ dirExists) =>
             (pc' = "observer" /\ failure' = "none")
        /\ failure' = "makedirs" =>
             /\ ~dirExists'
             /\ observer' = "none"
             /\ proc' = "none"
             /\ pc' \in {"except", "main_result", "done"}
             /\ pc' \in {"main_result", "done"} => result' = ExceptReturn
             /\ pc' = "done" => indications'[Len(indications')].kind = "error"
      ]_vars

C12_Witness ==
    /\ failure = "makedirs"
    /\ pc = "done"
    /\ ~dirExists

\* ------------------------------------------------------------- claim C13
\* C13: a process is spawned only after the observer was started; every file
\* the worker writes is written while the observer is active and its events
\* are queued for the handler; when starting the observer raised, no process
\* is ever spawned.
C13_WatcherBeforeSpawn ==
    [][ /\ proc' /= "none" => observer' /= "none"
        /\ proc' \in {"running", "closed"} => observer' = "active"
        /\ disk' /= disk => (observer = "active" /\ Len(evq') > Len(evq))
        /\ failure' = "observer" => (proc' = "none" /\ observer' = "none")
      ]_vars

C13_Witness ==
    /\ proc = "running"
    /\ observer = "active"
    /\ evq /= <<>>
    /\ \E n \in FileNames : disk[n] /= NoFile

\* ------------------------------------------------------------- claim C14
\* C14: the loop is left and the observer is stopped only when the worker
\* has exited, and what run_scraper returns on the normal path is the
\* worker's exit code, an integer and never None.
C14_StopOnlyAfterExit ==
    /\ observer = "stopped" => proc = "exited"
    /\ pc \in {"stop", "return"} => proc = "exited"
    /\ (failure = "none" /\ pc \in {"main_result", "done"}) =>
         /\ proc = "exited"
         /\ result = exitCode
         /\ result /= NoResult
         /\ result \in ExitCodes

C14_Witness ==
    /\ pc = "done"
    /\ failure = "none"
    /\ observer = "stopped"
    /\ result = 2

\* ------------------------------------------------------------- claim C15
\* C15: when the handler is given a created or a modified event of a file
\* (no directory) whose name ends in .txt and the read succeeds, the FileSet
\* afterwards maps the base name to the content read; an event of a
\* directory or of a file with another extension leaves the FileSet as it was.
C15_CreatedOrModifiedRecorded ==
    [][ idx'[1] = idx[1] + 1 =>
          LET d == seqA[idx[1] + 1]
              name == Basename(d.event.src_path)
          IN /\ (d.event.kind \in {"created", "modified"}
                 /\ Qualifies(d.event) /\ d.readOk) =>
                    /\ name \in DictKeys(fsA')
                    /\ DictMap(fsA')[name] = d.content
             /\ ~Qualifies(d.event) => fsA' = fsA
      ]_vars

\* ------------------------------------------------------------- claim C16
\* C16: when the handler is given a modified event of a .txt file and stores
\* nothing because the read failed, files_content is what it was (an entry
\* keeps its content, a missing entry stays missing), the observer stays
\* active, and nothing of the orchestrator changes: not its position, not
\* its failure, not its result.
C16_ReadFailureIsolated ==
    [][ ( /\ evq /= <<>>
          /\ evq' = Tail(evq)
          /\ Head(evq).kind = "modified"
          /\ Qualifies(Head(evq))
          /\ fsHist' = fsHist ) =>
            /\ files_content' = files_content
            /\ observer' = "active"
            /\ UNCHANGED orchVars
      ]_vars

\* All events were handled, and a file's content on disk differs from the
\* recorded one: the read of its latest content failed, the earlier is kept.
C16_Witness ==
    /\ observer = "active"
    /\ evq = <<>>
    /\ pc \in LoopPcs
    /\ \E n \in DictKeys(files_content) :
         disk[n] /= DictMap(files_content)[n]

\* ------------------------------------------------------------- claim C17
\* C17: between two calls of readline at most one text is written to
\* status_container and at most one bundle is displayed, and a step that
\* changes files_content is a step of the observer's thread: it takes an
\* event from the queue and changes nothing of the orchestrator.
C17_OnePerIteration ==
    [][ /\ iterLines' <= 1
        /\ iterRenders' <= 1
        /\ files_content' /= files_content =>
             (evq' = Tail(evq) /\ UNCHANGED orchVars)
      ]_vars

\* An iteration that wrote a line and displayed a bundle.
C17_Witness ==
    /\ pc = "readline"
    /\ iterLines = 1
    /\ iterRenders = 1
    /\ Len(statusLog) = 2

\* ------------------------------------------------------------- claim C18
\* C18: when the loop is left, the bundle on display is the render of
\* files_content as it is at that moment (nothing on display when it is empty).
C18_FinalBundleCurrent ==
    [][ (pc = "test" /\ pc' = "stop") =>
          file_placeholder' = IF files_content' = <<>> THEN <<>>
                              ELSE Render(combined_content', files_content')
      ]_vars

\* ------------------------------------------------------------- claim C19
\* C19: the texts written to status_container are the lines the worker wrote,
\* stripped, each once and in the order written; every line written is in
\* the pipe, in `output` waiting to be written, or already written; and when
\* the loop has been left no line is left unread, all were written out.
C19_EveryLineOnceInOrder ==
    /\ Len(statusLog) <= linesWritten
    /\ \A k \in 1..Len(statusLog) : statusLog[k] = Strip(WorkerLine(k))
    /\ (failure = "none" /\ pc \in LoopPcs) =>
         linesWritten = Len(statusLog) + Len(stdoutPipe)
                        + (IF pc = "test" /\ output /= Eof THEN 1 ELSE 0)
    /\ (failure = "none" /\ pc \in {"stop", "return", "main_result", "done"}) =>
         /\ stdoutPipe = <<>>
         /\ outLeft = 0
         /\ Len(statusLog) = linesWritten

C19_Witness ==
    /\ pc = "done"
    /\ failure = "none"
    /\ linesWritten >= 2
    /\ Len(statusLog) = linesWritten

\* ------------------------------------------------------------- claim C20
\* C20: a worker that was spawned, and that takes its steps whenever its
\* writes are not blocked, leads to the end of the run with the worker's exit
\* code as the result, however many lines it writes to standard error.
C20_NoPipeDeadlock ==
    (proc = "running") ~> (pc = "done" /\ failure = "none" /\ result = exitCode)
====
